---- MODULE Spec2Model ----
(***************************************************************************)
(* Model of package envflagparser: ParseConfig binds environment variables *)
(* and command-line flags onto the fields of a caller-supplied struct.     *)
(*                                                                         *)
(* Representation.                                                         *)
(*  - A struct type is a sequence of fields [kind, tag]; the flag tag is   *)
(*    a sequence of tokens in which ";" is the separator character, so     *)
(*    strings.Split is computed, not assumed.                              *)
(*  - A value is a record [n, s, b]: numeric kinds use n (durations in     *)
(*    milliseconds, float64 in tenths), strings use s, bools use b, and    *)
(*    an unsupported kind (a slice) uses n = 0 for nil and n = 1 for a     *)
(*    non-nil value.  The zero value of every kind is Zero.                *)
(*  - Texts are drawn from a finite universe; every strconv / time parser  *)
(*    is a table over that universe giving Go's result for each text.      *)
(*  - The process-wide registry flag.CommandLine is the variable formal.   *)
(***************************************************************************)
EXTENDS Integers, Sequences, FiniteSets, TLC

\* ------------------------------------------------------------- bounds
NumFields == 2
MaxEnvVars == 1
MaxArgs == 1
MaxCalls == 2

\* ------------------------------------------------------------- values
Zero == [n |-> 0, s |-> "", b |-> FALSE]
NumV(k) == [n |-> k, s |-> "", b |-> FALSE]
StrV(t) == [n |-> 0, s |-> t, b |-> FALSE]
BoolV(x) == [n |-> 0, s |-> "", b |-> x]

Ok(v) == [ok |-> TRUE, v |-> v]
Fail == [ok |-> FALSE, v |-> Zero]

SupportedKinds == {"int", "int64", "uint", "uint64", "float64", "string", "bool", "duration"}
Kinds == SupportedKinds \cup {"slice"}

\* reflect.Value.IsZero
IsZero(v) == v = Zero

\* ------------------------------------------------------------- conversions
\* strconv.ParseInt(s, 10, 64) and strconv.Atoi(s)
IntLit == ("0" :> 0) @@ ("1" :> 1) @@ ("7" :> 7) @@ ("+7" :> 7) @@ ("-3" :> -3)
ParseInt(t) == IF t \in DOMAIN IntLit THEN Ok(NumV(IntLit[t])) ELSE Fail

\* strconv.ParseUint(s, 10, 64): no sign is accepted
UintLit == ("0" :> 0) @@ ("1" :> 1) @@ ("7" :> 7)
ParseUint(t) == IF t \in DOMAIN UintLit THEN Ok(NumV(UintLit[t])) ELSE Fail

\* strconv.ParseFloat(s, 64), the value in tenths
FloatLit == ("0" :> 0) @@ ("1" :> 10) @@ ("7" :> 70) @@ ("+7" :> 70) @@ ("-3" :> -30)
            @@ ("1.5" :> 15) @@ ("2.5" :> 25) @@ ("2.50" :> 25)
ParseFloat(t) == IF t \in DOMAIN FloatLit THEN Ok(NumV(FloatLit[t])) ELSE Fail

\* strconv.ParseBool
BoolLit == ("1" :> TRUE) @@ ("T" :> TRUE) @@ ("true" :> TRUE)
           @@ ("0" :> FALSE) @@ ("false" :> FALSE)
ParseBool(t) == IF t \in DOMAIN BoolLit THEN Ok(BoolV(BoolLit[t])) ELSE Fail

\* time.ParseDuration, the value in milliseconds; a number without a unit is
\* an error except for "0"
DurLit == ("0" :> 0) @@ ("0s" :> 0) @@ ("5s" :> 5000) @@ ("5000ms" :> 5000)
          @@ ("150ms" :> 150) @@ ("10s" :> 10000)
ParseDuration(t) == IF t \in DOMAIN DurLit THEN Ok(NumV(DurLit[t])) ELSE Fail

\* strconv.Itoa, strconv.FormatInt(v, 10), strconv.FormatUint(v, 10)
FormatInt(v) == CASE v.n = 0 -> "0" [] v.n = 1 -> "1" [] v.n = 7 -> "7"
                  [] v.n = -3 -> "-3" [] OTHER -> "?"
\* strconv.FormatFloat(v, 'f', -1, 64)
FormatFloat(v) == CASE v.n = 0 -> "0" [] v.n = 10 -> "1" [] v.n = 70 -> "7"
                    [] v.n = -30 -> "-3" [] v.n = 15 -> "1.5" [] v.n = 25 -> "2.5"
                    [] OTHER -> "?"
\* strconv.FormatBool
FormatBool(v) == IF v.b THEN "true" ELSE "false"
\* time.Duration.String
DurationString(v) == CASE v.n = 0 -> "0s" [] v.n = 5000 -> "5s" [] v.n = 150 -> "150ms"
                       [] v.n = 10000 -> "10s" [] OTHER -> "?"

\* ------------------------------------------------------------- the struct type
EnvKeyOf(j) == "E" \o ToString(j)
FlagNameOf(j) == "f" \o ToString(j)

\* texts a default, an environment variable or an argument is drawn from, per
\* kind: the zero value, a non-zero value, and (where one exists) a text the
\* kind's parser rejects
DefaultTexts(k) ==
  CASE k \in {"int", "int64"} -> {"0", "7", "abc"}
    [] k \in {"uint", "uint64"} -> {"0", "7", "-3"}
    [] k = "float64" -> {"0", "1.5", "abc"}
    [] k = "string" -> {"", "localhost"}
    [] k = "bool" -> {"false", "true", "notabool"}
    [] k = "duration" -> {"0s", "10s", "7"}
    [] OTHER -> {"abc"}

EnvTexts(k) ==
  CASE k \in {"int", "int64"} -> {"0", "+7", "abc"}
    [] k \in {"uint", "uint64"} -> {"0", "7", "-3"}
    [] k = "float64" -> {"0", "2.50", "abc"}
    [] k = "string" -> {"", "abc"}
    [] k = "bool" -> {"false", "T", "notabool"}
    [] k = "duration" -> {"0s", "5000ms", "7"}
    [] OTHER -> {"abc"}

ArgTexts(k) ==
  CASE k \in {"int", "int64"} -> {"1", "abc"}
    [] k \in {"uint", "uint64"} -> {"1", "-3"}
    [] k = "float64" -> {"1.5", "abc"}
    [] k = "string" -> {"cli"}
    [] k = "bool" -> {"1", "notabool"}
    [] k = "duration" -> {"150ms", "7"}
    [] OTHER -> {"abc"}

\* a value a caller may have stored in the field before the call
Preset(k) ==
  CASE k \in {"int", "int64", "uint", "uint64"} -> NumV(9)
    [] k = "float64" -> NumV(5)
    [] k = "string" -> StrV("preset")
    [] k = "bool" -> BoolV(TRUE)
    [] k = "duration" -> NumV(1000)
    [] OTHER -> NumV(1)

\* the flag tag "name;default;usage" as tokens
Tag3(name, d) == IF d = "" THEN <<name, ";", ";", "usage">> ELSE <<name, ";", d, ";", "usage">>
Tag2(name, d) == <<name, ";", d>>
Tag4(name, d) == <<name, ";", d, ";", "usage", ";", "more">>

\* strings.Split(s, ";")
RECURSIVE SplitFrom(_, _, _)
SplitFrom(toks, k, cur) ==
  IF k > Len(toks) THEN <<cur>>
  ELSE IF toks[k] = ";" THEN <<cur>> \o SplitFrom(toks, k + 1, "")
  ELSE SplitFrom(toks, k + 1, cur \o toks[k])
Split(toks) == SplitFrom(toks, 1, "")

\* parseFlagArgs: parts[0], parts[1], parts[2]; an index past the end panics
parseFlagArgs(flagArgs) ==
  LET parts == Split(flagArgs) IN
  IF Len(parts) < 3 THEN [panic |-> TRUE, name |-> "", defaultValue |-> "", usage |-> ""]
  ELSE [panic |-> FALSE, name |-> parts[1], defaultValue |-> parts[2], usage |-> parts[3]]

\* getFieldIndexByFlagName: the first field whose tag is not empty and whose
\* first part is flagName, 0 for the code's -1
getFieldIndexByFlagName(t, flagName) ==
  LET hits == {j \in 1..Len(t) : t[j].flag # <<>> /\ Split(t[j].flag)[1] = flagName} IN
  IF hits = {} THEN 0 ELSE CHOOSE j \in hits : \A h \in hits : j <= h

\* setValue: the field's new value and the error the conversion returned; a
\* kind without a case is left alone and returns nil
setValue(k, cur, value) ==
  LET r == CASE k \in {"int", "int64", "duration"} ->
                  IF k = "duration" THEN ParseDuration(value) ELSE ParseInt(value)
             [] k \in {"uint", "uint64"} -> ParseUint(value)
             [] k = "float64" -> ParseFloat(value)
             [] k = "string" -> Ok(StrV(value))
             [] k = "bool" -> ParseBool(value)
             [] OTHER -> Ok(cur)
  IN [err |-> ~r.ok, v |-> IF r.ok THEN r.v ELSE cur]

\* the pointer types the flag package hands out, "nil" for no flag
FlagTypeOf(k) ==
  CASE k = "int" -> "*int" [] k = "string" -> "*string" [] k = "bool" -> "*bool"
    [] k = "duration" -> "*time.Duration" [] k = "int64" -> "*int64"
    [] k = "uint" -> "*uint" [] k = "uint64" -> "*uint64" [] k = "float64" -> "*float64"
    [] OTHER -> "nil"

\* getFlagSetValue up to the registration: the default parsed into the kind
ParseDefault(k, defaultValue) ==
  CASE k = "int" -> ParseInt(defaultValue)
    [] k = "string" -> Ok(StrV(defaultValue))
    [] k = "bool" -> ParseBool(defaultValue)
    [] k = "duration" -> ParseDuration(defaultValue)
    [] k = "int64" -> ParseInt(defaultValue)
    [] k \in {"uint", "uint64"} -> ParseUint(defaultValue)
    [] k = "float64" -> ParseFloat(defaultValue)
    [] OTHER -> Ok(Zero)

\* flag.Value.Set of each flag type (the flag package parses integers with base
\* 0, which agrees with base 10 on every text of the universe)
FlagSet(type, value) ==
  CASE type \in {"*int", "*int64"} -> ParseInt(value)
    [] type \in {"*uint", "*uint64"} -> ParseUint(value)
    [] type = "*float64" -> ParseFloat(value)
    [] type = "*string" -> Ok(StrV(value))
    [] type = "*bool" -> ParseBool(value)
    [] type = "*time.Duration" -> ParseDuration(value)
    [] OTHER -> Fail

\* flag.Parse: the arguments in order; an undefined flag or a value the flag's
\* type rejects fails (a panic under flag.PanicOnError), flags set before it stay set
RECURSIVE flagParse_ContinueOnError(_, _, _)
flagParse_ContinueOnError(reg, as, k) ==
  IF k > Len(as) THEN [ok |-> TRUE, reg |-> reg]
  ELSE IF as[k].name \notin DOMAIN reg THEN flagParse_ContinueOnError(reg, as, k + 1)
  ELSE LET r == FlagSet(reg[as[k].name].type, as[k].value) IN
       IF ~r.ok THEN flagParse_ContinueOnError(reg, as, k + 1)
       ELSE flagParse_ContinueOnError([reg EXCEPT ![as[k].name].val = r.v], as, k + 1)

RECURSIVE flagParse(_, _, _)
flagParse(reg, as, k) ==
  IF k > Len(as) THEN [ok |-> TRUE, reg |-> reg]
  ELSE IF as[k].name \notin DOMAIN reg THEN [ok |-> FALSE, reg |-> reg]
  ELSE LET r == FlagSet(reg[as[k].name].type, as[k].value) IN
       IF ~r.ok THEN [ok |-> FALSE, reg |-> reg]
       ELSE flagParse([reg EXCEPT ![as[k].name].val = r.v], as, k + 1)

\* setFieldValueByFlagValue: the flag's value formatted and written through
\* setValue, whose error is dropped; an unknown pointer type is an error
setFieldValueByFlagValue(k, cur, type, fv) ==
  CASE type \in {"*int", "*int64", "*uint", "*uint64"} ->
         [err |-> FALSE, v |-> setValue(k, cur, FormatInt(fv)).v]
    [] type = "*string" -> [err |-> FALSE, v |-> setValue(k, cur, fv.s).v]
    [] type = "*bool" -> [err |-> FALSE, v |-> setValue(k, cur, FormatBool(fv)).v]
    [] type = "*float64" -> [err |-> FALSE, v |-> setValue(k, cur, FormatFloat(fv)).v]
    [] type = "*time.Duration" -> [err |-> FALSE, v |-> setValue(k, cur, DurationString(fv)).v]
    [] OTHER -> [err |-> TRUE, v |-> cur]

\* the resolve loop's condition: !PrioritiseEnv || field.IsZero()
ShouldWrite_EnvOnly(prioritise, cur) == IsZero(cur)
ShouldWrite(prioritise, cur) == ~prioritise \/ IsZero(cur)

\* ------------------------------------------------------------- state
VARIABLES
  PrioritiseEnv,  \* the package variable
  typ,            \* the struct type: fields [kind, env, flag]
  environ,        \* the process environment: key -> text
  args,           \* os.Args[1:] as -name=value pairs
  pre,            \* the struct's field values before a call
  elem,           \* the struct's field values
  formal,         \* flag.CommandLine's registered flags: name -> [type, val]
  flagValues,     \* ParseConfig's local map: flag name -> pointer type
  i,              \* the field loop's index (from 1)
  todo,           \* keys of flagValues the resolve loop has not visited
  pc,             \* "idle", "fields", "parse", "resolve", "done"
  err,            \* the returned error, "" for nil
  results         \* what each finished call returned and left in the struct

vars == <<PrioritiseEnv, typ, environ, args, pre, elem, formal, flagValues, i, todo,
          pc, err, results>>
inputs == <<PrioritiseEnv, typ, environ, args, pre>>

NoFlags == [x \in {} |-> [type |-> "nil", val |-> Zero]]
NoPointers == [x \in {} |-> "nil"]

\* ------------------------------------------------------------- inputs
\* a default every parser of the kind accepts
GoodDefault(k) ==
  CASE k \in {"int", "int64", "uint", "uint64"} -> "7"
    [] k = "float64" -> "1.5"
    [] k = "string" -> "localhost"
    [] k = "bool" -> "true"
    [] k = "duration" -> "10s"
    [] OTHER -> "abc"

\* the tags a field of kind k may carry: well formed with each default, and
\* with no, two and four parts
FieldTags(k, j) ==
  {Tag3(FlagNameOf(j), d) : d \in DefaultTexts(k)}
    \cup {<<>>, Tag2(FlagNameOf(j), GoodDefault(k)), Tag4(FlagNameOf(j), GoodDefault(k))}

FieldTypes(j) ==
  UNION {{[kind |-> k, env |-> EnvKeyOf(j), flag |-> t] : t \in FieldTags(k, j)} : k \in Kinds}

StructTypes ==
  {t \in [1..NumFields -> UNION {FieldTypes(j) : j \in 1..NumFields}] :
     \A j \in 1..NumFields : t[j] \in FieldTypes(j)}

Environs(t) ==
  UNION {{e \in [{t[j].env : j \in S} -> UNION {EnvTexts(k) : k \in Kinds}] :
            \A j \in S : e[t[j].env] \in EnvTexts(t[j].kind)}
         : S \in {S \in SUBSET (1..Len(t)) : Cardinality(S) <= MaxEnvVars}}

ArgsOf(t) ==
  UNION {{[name |-> FlagNameOf(j), value |-> v] : v \in ArgTexts(t[j].kind)} : j \in 1..Len(t)}
    \cup {[name |-> "undefined", value |-> "abc"]}

ArgLists(t) == UNION {[1..n -> ArgsOf(t)] : n \in 0..MaxArgs}

Presets(t) == {p \in [1..Len(t) -> UNION {{Zero, Preset(k)} : k \in Kinds}] :
                 \A j \in 1..Len(t) : p[j] \in {Zero, Preset(t[j].kind)}}

Init ==
  /\ PrioritiseEnv \in BOOLEAN
  /\ typ \in StructTypes
  /\ environ \in Environs(typ)
  /\ args \in ArgLists(typ)
  /\ pre \in Presets(typ)
  /\ elem = pre
  /\ formal = NoFlags
  /\ flagValues = NoPointers
  /\ i = 1
  /\ todo = {}
  /\ pc = "idle"
  /\ err = ""
  /\ results = <<>>

\* ------------------------------------------------------------- ParseConfig
\* entry: CommandLine.Init sets the name and the error handling and leaves the
\* registered flags alone; the call works on a struct holding the pre-call values
Call ==
  /\ pc \in {"idle", "done"}
  /\ Len(results) < MaxCalls
  /\ elem' = pre
  /\ flagValues' = NoPointers
  /\ i' = 1
  /\ todo' = {}
  /\ err' = ""
  /\ pc' = "fields"
  /\ UNCHANGED <<inputs, formal, results>>

\* a call's return: the deferred function has run, the caller sees err and the struct
Return(e, el) ==
  /\ pc' = "done"
  /\ err' = e
  /\ results' = Append(results, [err |-> e, elem |-> el])

\* one iteration of the field loop
FieldStep ==
  /\ pc = "fields"
  /\ LET f == typ[i]
         a == parseFlagArgs(f.flag)
         applied == IF f.env \in DOMAIN environ
                     THEN setValue(f.kind, elem[i], environ[f.env]).v
                     ELSE elem[i]
         el == [elem EXCEPT ![i] = applied]
         d == ParseDefault(f.kind, a.defaultValue)
         type == FlagTypeOf(f.kind)
     IN
     IF a.panic
       THEN /\ Return("index out of range", elem)
            /\ UNCHANGED <<inputs, elem, formal, flagValues, i, todo>>
     ELSE IF ~d.ok
       THEN /\ elem' = el
            /\ Return("invalid default", el)
            /\ UNCHANGED <<inputs, formal, flagValues, i, todo>>
     ELSE IF type # "nil" /\ a.name \in DOMAIN formal
       THEN /\ elem' = el
            /\ Return("flag redefined", el)
            /\ UNCHANGED <<inputs, formal, flagValues, i, todo>>
     ELSE /\ elem' = el
          /\ formal' = IF type = "nil" THEN formal
                       ELSE (a.name :> [type |-> type, val |-> d.v]) @@ formal
          /\ flagValues' = (a.name :> type) @@ flagValues
          /\ i' = i + 1
          /\ pc' = IF i + 1 > Len(typ) THEN "parse" ELSE "fields"
          /\ UNCHANGED <<inputs, todo, err, results>>

\* flag.Parse()
ParseArgs ==
  /\ pc = "parse"
  /\ LET r == flagParse(formal, args, 1) IN
     /\ formal' = r.reg
     /\ IF r.ok
          THEN /\ pc' = "resolve"
               /\ todo' = DOMAIN flagValues
               /\ UNCHANGED <<err, results>>
          ELSE /\ Return("flag parse", elem)
               /\ UNCHANGED todo
  /\ UNCHANGED <<inputs, elem, flagValues, i>>

\* one iteration of the loop over flagValues, in the map's unspecified order
ResolveStep ==
  /\ pc = "resolve"
  /\ \E flagName \in todo :
       LET fieldIndex == getFieldIndexByFlagName(typ, flagName)
           type == flagValues[flagName]
           fv == IF type = "nil" THEN Zero ELSE formal[flagName].val
           r == setFieldValueByFlagValue(typ[fieldIndex].kind, elem[fieldIndex], type, fv)
       IN
       IF fieldIndex # 0 /\ ShouldWrite(PrioritiseEnv, elem[fieldIndex])
         THEN IF r.err
                THEN /\ Return("unsupported flag value type", elem)
                     /\ UNCHANGED <<elem, todo>>
                ELSE /\ elem' = [elem EXCEPT ![fieldIndex] = r.v]
                     /\ todo' = todo \ {flagName}
                     /\ UNCHANGED <<pc, err, results>>
         ELSE /\ todo' = todo \ {flagName}
              /\ UNCHANGED <<elem, pc, err, results>>
  /\ UNCHANGED <<inputs, formal, flagValues, i>>

\* return nil
ReturnNil ==
  /\ pc = "resolve"
  /\ todo = {}
  /\ Return("", elem)
  /\ UNCHANGED <<inputs, elem, formal, flagValues, i, todo>>

Next == Call \/ FieldStep \/ ParseArgs \/ ResolveStep \/ ReturnNil

Spec == Init /\ [][Next]_vars

\* ------------------------------------------------------------- properties
\* What each text denotes as a value of a kind, stated apart from the parsers:
\* integers as themselves, float64 in tenths, durations in milliseconds.
IntMeaning == ("0" :> 0) @@ ("1" :> 1) @@ ("7" :> 7) @@ ("+7" :> 7)
UintMeaning == ("0" :> 0) @@ ("1" :> 1) @@ ("7" :> 7)
FloatMeaning == ("0" :> 0) @@ ("1.5" :> 15) @@ ("2.50" :> 25)
BoolMeaning == ("false" :> FALSE) @@ ("true" :> TRUE) @@ ("T" :> TRUE) @@ ("1" :> TRUE)
DurMeaning == ("0s" :> 0) @@ ("10s" :> 10000) @@ ("5000ms" :> 5000) @@ ("150ms" :> 150)

Denotes(k, t) ==
  CASE k \in {"int", "int64"} -> t \in DOMAIN IntMeaning
    [] k \in {"uint", "uint64"} -> t \in DOMAIN UintMeaning
    [] k = "float64" -> t \in DOMAIN FloatMeaning
    [] k = "string" -> TRUE
    [] k = "bool" -> t \in DOMAIN BoolMeaning
    [] k = "duration" -> t \in DOMAIN DurMeaning
    [] OTHER -> FALSE

Meaning(k, t) ==
  CASE k \in {"int", "int64"} -> [n |-> IntMeaning[t], s |-> "", b |-> FALSE]
    [] k \in {"uint", "uint64"} -> [n |-> UintMeaning[t], s |-> "", b |-> FALSE]
    [] k = "float64" -> [n |-> FloatMeaning[t], s |-> "", b |-> FALSE]
    [] k = "string" -> [n |-> 0, s |-> t, b |-> FALSE]
    [] k = "bool" -> [n |-> 0, s |-> "", b |-> BoolMeaning[t]]
    [] OTHER -> [n |-> DurMeaning[t], s |-> "", b |-> FALSE]

Fields == 1..Len(typ)
Supported(j) == typ[j].kind \in SupportedKinds
\* the descriptor's parts, counted on the raw tag
SeparatorCount(j) == Cardinality({k \in 1..Len(typ[j].flag) : typ[j].flag[k] = ";"})
PartCount(j) == SeparatorCount(j) + 1
\* the default a tag of three parts or more carries (its second part)
DefaultOf(j) ==
  LET t == typ[j].flag IN
  IF Len(t) >= 3 /\ t[2] = ";" /\ t[3] # ";" THEN t[3] ELSE ""

EnvSet(j) == typ[j].env \in DOMAIN environ
EnvText(j) == environ[typ[j].env]
EnvConverts(j) == EnvSet(j) /\ Denotes(typ[j].kind, EnvText(j))
EnvValue(j) == Meaning(typ[j].kind, EnvText(j))

ArgsFor(j) == {k \in 1..Len(args) : args[k].name = FlagNameOf(j)}
FlagSupplied(j) == ArgsFor(j) # {}
LastArgFor(j) == args[CHOOSE k \in ArgsFor(j) : \A h \in ArgsFor(j) : h <= k].value
\* what the flag of field j holds after the arguments are parsed
FlagDerived(j) ==
  IF FlagSupplied(j) THEN Meaning(typ[j].kind, LastArgFor(j))
  ELSE Meaning(typ[j].kind, DefaultOf(j))

\* an argument the parser must reject: no supported field declares the flag,
\* or the value is not one of the flag's type
BadArg(k) ==
  \A j \in Fields :
     args[k].name = FlagNameOf(j) => (~Supported(j) \/ ~Denotes(typ[j].kind, args[k].value))
BadArgs == \E k \in 1..Len(args) : BadArg(k)

ReturnedNil == pc = "done" /\ err = ""

\* C1: with PrioritiseEnv, a field whose environment key is set (to any value of
\* its type, the zero value included) and whose flag is on the command line
\* equals the environment value once ParseConfig has returned nil.
C1_EnvBeatsFlag ==
  (ReturnedNil /\ PrioritiseEnv) =>
    \A j \in Fields :
       (Supported(j) /\ EnvConverts(j) /\ FlagSupplied(j)) => elem[j] = EnvValue(j)

\* C2: with PrioritiseEnv and no flag on the command line, every value of the
\* field's type written to its environment key is read back from the field,
\* whatever the descriptor's default is.
C2_EnvReadBack ==
  (ReturnedNil /\ PrioritiseEnv) =>
    \A j \in Fields :
       (Supported(j) /\ EnvConverts(j) /\ ~FlagSupplied(j)) => elem[j] = EnvValue(j)

\* C3: without PrioritiseEnv, every supported field equals the flag-derived
\* value (the command-line value, else the parsed default) once ParseConfig
\* has returned nil, whatever the environment holds.
C3_FlagWins ==
  (ReturnedNil /\ ~PrioritiseEnv) =>
    \A j \in Fields : Supported(j) => elem[j] = FlagDerived(j)

C3_Witness ==
  /\ ReturnedNil /\ ~PrioritiseEnv
  /\ \E j \in Fields :
       /\ Supported(j) /\ EnvConverts(j)
       /\ EnvValue(j) # Zero /\ EnvValue(j) # FlagDerived(j)
       /\ elem[j] = FlagDerived(j)

\* C4: a supported field with neither environment key nor flag supplied equals
\* its parsed default once ParseConfig has returned nil, for both settings of
\* PrioritiseEnv.
C4_DefaultFills ==
  ReturnedNil =>
    \A j \in Fields :
       (Supported(j) /\ ~EnvSet(j) /\ ~FlagSupplied(j))
         => elem[j] = Meaning(typ[j].kind, DefaultOf(j))

\* C5: when some supported field's environment value does not convert to the
\* field's type, ParseConfig returns a non-nil error.
C5_BadEnvFails ==
  (pc = "done" /\ \E j \in Fields :
                     Supported(j) /\ EnvSet(j) /\ ~Denotes(typ[j].kind, EnvText(j)))
    => err # ""

\* C6: every call starts with a registry holding no flag of an earlier call,
\* and a second call after a first that returned nil returns what the first did.
C6_FreshRegistryPerCall ==
  /\ (pc = "fields" /\ i = 1) => formal = NoFlags
  /\ (Len(results) = 2 /\ results[1].err = "") => results[2] = results[1]

\* C7: a descriptor that does not split into exactly three parts makes
\* ParseConfig return a non-nil error, and no flag is registered for its field.
C7_PartCountChecked ==
  \A j \in Fields :
     PartCount(j) # 3 =>
       /\ FlagNameOf(j) \notin DOMAIN formal
       /\ pc = "done" => err # ""

\* C8: with an undefined flag or a malformed flag value among the arguments,
\* ParseConfig returns a non-nil error, the resolve loop never runs, and every
\* field holds its environment-applied value or its pre-call value.
C8_BadArgsFail ==
  BadArgs =>
    /\ pc # "resolve"
    /\ pc = "done" =>
         /\ err # ""
         /\ \A j \in Fields :
              \/ elem[j] = pre[j]
              \/ Supported(j) /\ EnvConverts(j) /\ elem[j] = EnvValue(j)

C8_Witness ==
  /\ BadArgs /\ pc = "done" /\ err = "flag parse"
  /\ \E j \in Fields : elem[j] # pre[j] /\ EnvConverts(j) /\ elem[j] = EnvValue(j)

\* C9: a record with a field of an unsupported kind carrying a three-part
\* descriptor, and otherwise valid, is not rejected: ParseConfig returns nil
\* and leaves the unsupported field at its pre-call value.
C9_UnsupportedSkipped ==
  ( /\ pc = "done" /\ Len(results) = 1
    /\ \E j \in Fields : ~Supported(j) /\ PartCount(j) = 3
    /\ \A j \in Fields : Supported(j) =>
                           PartCount(j) = 3 /\ Denotes(typ[j].kind, DefaultOf(j))
    /\ \A j \in Fields : ~Supported(j) => PartCount(j) = 3
    /\ ~BadArgs )
    => /\ err = ""
       /\ \A j \in Fields : ~Supported(j) => elem[j] = pre[j]

\* C10: when the default of field i does not parse, ParseConfig returns that
\* error; the fields after i keep their pre-call values and have no flag, and
\* the fields up to i hold their environment value where the key is set.
C10_DefaultErrorStops ==
  (pc = "done" /\ err = "invalid default") =>
    /\ \A j \in Fields : j > i => elem[j] = pre[j] /\ FlagNameOf(j) \notin DOMAIN formal
    /\ \A j \in Fields : (j <= i /\ Supported(j) /\ EnvSet(j))
                            => EnvConverts(j) /\ elem[j] = EnvValue(j)
    /\ \A j \in Fields : (j <= i /\ ~EnvSet(j)) => elem[j] = pre[j]

====
